---- MODULE Spec2Model ----
(***************************************************************************)
(* A model of imovirtual_scraper.py: the structured-data reader            *)
(* (parse_json_ld / _merge_realestate), the label/value scanner            *)
(* (find_label_value), the record assembly of parse_listing and the batch  *)
(* loop of run.                                                            *)
(*                                                                         *)
(* Python values are tagged records: None is Null, a str is Str(s) with s  *)
(* a sequence of one-character strings, an int is Num(n), a dict is        *)
(* Dict(f) with f a function from key to value, a list is List(seq).       *)
(***************************************************************************)
EXTENDS Integers, Sequences, FiniteSets, TLC

VARIABLES
    doc,          \* the parsed document handed to parse_listing (soup)
    url,          \* parse_listing's url argument
    max_images,   \* parse_listing's / args.max_images
    pc,           \* position of the running function
    ti,           \* parse_json_ld: index of the next script tag
    data,         \* parse_json_ld: the dict being filled (dst)
    result,       \* what parse_listing returned, or that it raised
    urls,         \* run: the url column of the input CSV
    ui,           \* run: index of the next input row
    rows,         \* run: the records collected so far
    log,          \* run: the [OK] / [ERRO] lines printed so far
    csv_out,      \* run: the CSV file, NoFile until it is written
    pptx_out      \* run: the PPTX file, NoFile until it is written

vars == <<doc, url, max_images, pc, ti, data, result, urls, ui, rows, log, csv_out, pptx_out>>

----------------------------------------------------------------------------
(* Python values *)

Null == [null |-> TRUE]

Str(s) == [str |-> s]

Num(n) == [num |-> n]

Dict(f) == [dict |-> f]

List(q) == [list |-> q]

IsStr(v) == DOMAIN v = {"str"}

IsNum(v) == DOMAIN v = {"num"}

IsDict(v) == DOMAIN v = {"dict"}

IsList(v) == DOMAIN v = {"list"}

EmptyMap == <<>>

\* Python truth value of v (what `or`, `if v` and `not v` test).
Truthy(v) ==
    CASE v = Null -> FALSE
      [] IsStr(v) -> v.str # <<>>
      [] IsNum(v) -> v.num # 0
      [] IsDict(v) -> DOMAIN v.dict # {}
      [] IsList(v) -> v.list # <<>>

\* a or b
PyOr(a, b) == IF Truthy(a) THEN a ELSE b

\* d.get(k) on the key/value function of a dict
Get(d, k) == IF k \in DOMAIN d THEN d[k] ELSE Null

\* d.setdefault(k, v): stores v only when the key k is not in d
SetDefault(d, k, v) == IF k \in DOMAIN d THEN d ELSE d @@ (k :> v)

\* d[k] = v
SetItem(d, k, v) == (k :> v) @@ d

----------------------------------------------------------------------------
(* Python str operations, on sequences of characters *)

NBSP == "nbsp"   \* stands for the one character U+00A0

Whitespace == {" ", "\t", "\n", NBSP}

RECURSIVE LStripChars(_, _)
LStripChars(s, cs) ==
    IF s # <<>> /\ Head(s) \in cs THEN LStripChars(Tail(s), cs) ELSE s

RECURSIVE RStripChars(_, _)
RStripChars(s, cs) ==
    IF s # <<>> /\ s[Len(s)] \in cs THEN RStripChars(SubSeq(s, 1, Len(s) - 1), cs) ELSE s

\* s.strip(cs)
StripChars(s, cs) == RStripChars(LStripChars(s, cs), cs)

\* s.strip()
Strip(s) == StripChars(s, Whitespace)

\* s.startswith(p)
StartsWith(s, p) == Len(s) >= Len(p) /\ SubSeq(s, 1, Len(p)) = p

\* s.replace(old, ""), old non-empty: every non-overlapping occurrence, left to right
RECURSIVE RemoveAll(_, _)
RemoveAll(s, old) ==
    IF s = <<>> THEN <<>>
    ELSE IF old # <<>> /\ StartsWith(s, old)
         THEN RemoveAll(SubSeq(s, Len(old) + 1, Len(s)), old)
         ELSE <<Head(s)>> \o RemoveAll(Tail(s), old)

UpperChars ==
    <<"A", "B", "C", "D", "E", "F", "G", "H", "I", "J", "K", "L", "M", "N", "O", "P", "Q", "R", "S", "T", "U", "V", "W", "X", "Y", "Z", "Á", "Ú">>

LowerChars ==
    <<"a", "b", "c", "d", "e", "f", "g", "h", "i", "j", "k", "l", "m", "n", "o", "p", "q", "r", "s", "t", "u", "v", "w", "x", "y", "z", "á", "ú">>

\* the case folding re.I applies, on the letters the model's texts use
LowerTable == [i \in DOMAIN UpperChars |-> LowerChars[i]]

LowerChar(c) ==
    IF \E i \in DOMAIN UpperChars : UpperChars[i] = c
    THEN LowerTable[CHOOSE i \in DOMAIN UpperChars : UpperChars[i] = c]
    ELSE c

\* a and b are equal up to case
EqualFold(a, b) == Len(a) = Len(b) /\ \A i \in 1..Len(a) : LowerChar(a[i]) = LowerChar(b[i])

Digits == <<"0", "1", "2", "3", "4", "5", "6", "7", "8", "9">>

\* str(n) of a non-negative int
RECURSIVE StrOfNat(_)
StrOfNat(n) ==
    IF n < 10 THEN <<Digits[n + 1]>>
    ELSE StrOfNat(n \div 10) \o <<Digits[(n % 10) + 1]>>

\* str(v), also what an f-string field {v} gives
PyStr(v) ==
    CASE IsStr(v) -> v.str
      [] IsNum(v) -> StrOfNat(v.num)
      [] v = Null -> <<"N", "o", "n", "e">>

\* " ".join(parts)
RECURSIVE JoinSpace(_)
JoinSpace(parts) ==
    IF parts = <<>> THEN <<>>
    ELSE IF Len(parts) = 1 THEN parts[1]
    ELSE parts[1] \o <<" ">> \o JoinSpace(Tail(parts))

----------------------------------------------------------------------------
(* parse_json_ld and _merge_realestate *)

\* The text of a script tag is represented by what json.loads makes of it:
\* Malformed raises, Json(v) decodes to the value v. A tag without text has
\* string None.
Malformed == [malformed |-> TRUE]

Json(v) == [json |-> v]

Tag(text) == [string |-> text]

EmptyDict == Dict(EmptyMap)

\* the location string composed from an address dict (lines 107-111)
compose_loc(address) ==
    Strip(JoinSpace(<<
        PyStr(PyOr(Get(address, "addressLocality"), Str(<<>>))),
        PyStr(PyOr(Get(address, "addressRegion"), Str(<<>>))),
        PyStr(PyOr(Get(address, "addressCountry"), Str(<<>>)))
    >>))

\* offer.get("price") or offer.get("lowPrice")
offer_price(offer) == PyOr(Get(offer, "price"), Get(offer, "lowPrice"))

\* f"{price} {currency}"
format_price(price, currency) == PyStr(price) \o <<" ">> \o PyStr(currency)

\* lines 100-105: the offers part of the merge
merge_offer(dst, offer) ==
    IF IsDict(offer)
    THEN LET price    == offer_price(offer.dict)
             d1       == SetDefault(dst, "price", price)
             currency == Get(offer.dict, "priceCurrency")
         IN  IF Truthy(price) /\ Truthy(currency)
             THEN SetItem(d1, "price_str", Str(format_price(price, currency)))
             ELSE d1
    ELSE dst

\* lines 106-113: the address part of the merge
merge_address(dst, address) ==
    IF IsDict(address)
    THEN LET loc == compose_loc(address.dict)
         IN  IF loc # <<>> THEN SetDefault(dst, "location", Str(loc)) ELSE dst
    ELSE dst

\* lines 114-116: the rooms part of the merge
merge_rooms(dst, o) ==
    LET rooms == PyOr(Get(o, "numberOfRooms"), Get(o, "numberOfBedrooms"))
    IN  IF Truthy(rooms) THEN SetDefault(dst, "bedrooms", Str(PyStr(rooms))) ELSE dst

\* lines 96-116: the merge of the object's own fields, after its @graph
merge_own(dst, o) ==
    LET offer   == PyOr(Get(o, "offers"), EmptyDict)
        address == PyOr(Get(o, "address"), EmptyDict)
        d1      == SetDefault(dst, "title", Get(o, "name"))
        d2      == SetDefault(d1, "description", Get(o, "description"))
        d3      == merge_offer(d2, offer)
        d4      == merge_address(d3, address)
    IN  merge_rooms(d4, o)

RECURSIVE _merge_realestate(_, _)
RECURSIVE merge_each(_, _, _)

\* for x in xs[i:]: _merge_realestate(dst, x)
merge_each(dst, xs, i) ==
    IF i > Len(xs) THEN dst
    ELSE merge_each(_merge_realestate(dst, xs[i]), xs, i + 1)

_merge_realestate(dst, obj) ==
    IF ~IsDict(obj) THEN dst
    ELSE LET o  == obj.dict
             d0 == IF "@graph" \in DOMAIN o /\ IsList(o["@graph"])
                   THEN merge_each(dst, o["@graph"].list, 1)
                   ELSE dst
         IN  merge_own(d0, o)

\* lines 79-87: one iteration of parse_json_ld's loop over the script tags
merge_tag(dst, tag) ==
    LET text == IF tag.string = Null THEN Json(EmptyDict) ELSE tag.string
    IN  IF text = Malformed THEN dst
        ELSE LET obj == text.json
             IN  IF IsList(obj) THEN merge_each(dst, obj.list, 1)
                 ELSE _merge_realestate(dst, obj)

RECURSIVE merge_tags(_, _, _)
merge_tags(dst, tags, i) ==
    IF i > Len(tags) THEN dst ELSE merge_tags(merge_tag(dst, tags[i]), tags, i + 1)

parse_json_ld(soup) == merge_tags(EmptyMap, soup.scripts, 1)

----------------------------------------------------------------------------
(* find_label_value *)

\* The elements find_label_value scans are the entries of soup.nodes, in
\* document order, all siblings of one parent.  An entry has
\*   tag    : "dt", "dd", "li", "div" or "span"
\*   text   : its get_text(" ", strip=True); dt, dd, div and span entries
\*            hold a single text node, so get_text(strip=True) is the same
\*   string : (dt) whether dt.string is a non-empty string
\*   strong : (li) the text of li.find(["strong", "span"]), Null without one
\* and text of an li is its whole text, the label child included.

\* label_pattern.match(text), label_pattern = ^\s*(l1|l2|...)\s*:?$ with re.I:
\* optional leading whitespace, one label, optional whitespace, optional colon.
label_match(labels, text) ==
    LET t1 == LStripChars(text, Whitespace)
        t2 == IF t1 # <<>> /\ t1[Len(t1)] = ":" THEN SubSeq(t1, 1, Len(t1) - 1) ELSE t1
        t3 == RStripChars(t2, Whitespace)
    IN  \E i \in DOMAIN labels : EqualFold(t3, labels[i])

\* dt.find_next("dd"): the index of the first dd after position i, 0 without one
RECURSIVE find_next_dd(_, _)
find_next_dd(nodes, i) ==
    IF i + 1 > Len(nodes) THEN 0
    ELSE IF nodes[i + 1].tag = "dd" THEN i + 1
    ELSE find_next_dd(nodes, i + 1)

\* lines 56-60: the loop over dt elements, from position i; Null when it ends
\* without returning
RECURSIVE scan_dt(_, _, _)
scan_dt(nodes, labels, i) ==
    IF i > Len(nodes) THEN Null
    ELSE LET dt == nodes[i]
             dd == find_next_dd(nodes, i)
         IN  IF dt.tag = "dt" /\ dt.string /\ label_match(labels, dt.text) /\ dd # 0
             THEN Str(nodes[dd].text)
             ELSE scan_dt(nodes, labels, i + 1)

\* lines 64-66: the value left of an li once its label is removed
li_value(li) == StripChars(RemoveAll(li.text, li.strong.str), {" ", ":", NBSP, "-"})

\* lines 61-68: the loop over li elements
RECURSIVE scan_li(_, _, _)
scan_li(nodes, labels, i) ==
    IF i > Len(nodes) THEN Null
    ELSE LET li == nodes[i]
         IN  IF li.tag = "li" /\ li.strong # Null /\ label_match(labels, li.strong.str)
                /\ li_value(li) # <<>>
             THEN Str(li_value(li))
             ELSE scan_li(nodes, labels, i + 1)

\* lines 69-73: the loop over div and span elements
RECURSIVE scan_sibling(_, _, _)
scan_sibling(nodes, labels, i) ==
    IF i > Len(nodes) THEN Null
    ELSE LET node == nodes[i]
         IN  IF node.tag \in {"div", "span"} /\ node.text # <<>>
                /\ label_match(labels, node.text)
                /\ i + 1 <= Len(nodes) /\ nodes[i + 1].text # <<>>
             THEN Str(nodes[i + 1].text)
             ELSE scan_sibling(nodes, labels, i + 1)

\* find_label_value with the li tier tried before the dt tier
find_label_value_li_first(soup, labels) ==
    LET r1 == scan_dt(soup.nodes, labels, 1)
        r2 == scan_li(soup.nodes, labels, 1)
        r3 == scan_sibling(soup.nodes, labels, 1)
    IN  IF r2 # Null THEN r2
        ELSE IF r1 # Null THEN r1
        ELSE r3

find_label_value(soup, labels) ==
    LET r1 == scan_dt(soup.nodes, labels, 1)
        r2 == scan_li(soup.nodes, labels, 1)
        r3 == scan_sibling(soup.nodes, labels, 1)
    IN  IF r1 # Null THEN r1
        ELSE IF r2 # Null THEN r2
        ELSE r3

----------------------------------------------------------------------------
(* parse_listing *)

\* The other parts of the document parse_listing reads:
\*   scripts    : the script tags of type application/ld+json, in order
\*   h1         : the stripped text of soup.find("h1"), Null without one
\*   price_el   : the stripped text of the first strong/span whose aria-label
\*                matches "Preço" (re.I), Null without one
\*   breadcrumb : the stripped text of nav[aria-label='breadcrumb'], or Null
\*   paragraphs : get_text(" ", strip=True) of every p, in order
\*   imgs       : the attributes of every img, in order

TipologiaLabels ==
    <<
        <<"T", "i", "p", "o", "l", "o", "g", "i", "a">>
    >>

QuartosLabels ==
    <<
        <<"Q", "u", "a", "r", "t", "o", "s">>,
        <<"N", "º", " ", "d", "e", " ", "q", "u", "a", "r", "t", "o", "s">>,
        <<"N", "ú", "m", "e", "r", "o", " ", "d", "e", " ", "q", "u", "a", "r", "t", "o", "s">>
    >>

BanhoLabels ==
    <<
        <<"C", "a", "s", "a", "s", " ", "d", "e", " ", "b", "a", "n", "h", "o">>,
        <<"W", "C", "s">>
    >>

AreaLabels ==
    <<
        <<"Á", "r", "e", "a", " ", "b", "r", "u", "t", "a">>,
        <<"Á", "r", "e", "a", " ", "ú", "t", "i", "l">>,
        <<"Á", "r", "e", "a">>,
        <<"Á", "r", "e", "a", " ", "(", "m", "²", ")">>,
        <<"Á", "r", "e", "a", " ", "b", "r", "u", "t", "a", " ", "(", "m", "²", ")">>
    >>

ScalarKeys ==
    {"url", "title", "price", "location", "area", "typology", "bedrooms", "bathrooms",
     "description"}

\* f"image{i}"
ImageKey(i) == "image" \o ToString(i)

\* resolve_price with the numeric price tried before the labelled element
resolve_price_numeric_first(meta, soup) ==
    LET price     == Get(meta, "price")
        price_str == Get(meta, "price_str")
    IN  IF ~Truthy(price_str)
        THEN IF Truthy(price) THEN Str(PyStr(price)) ELSE PyOr(soup.price_el, Str(<<>>))
        ELSE price_str

\* lines 125-129: the price string
resolve_price(meta, soup) ==
    LET price     == Get(meta, "price")
        price_str == Get(meta, "price_str")
    IN  IF ~Truthy(price_str)
        THEN PyOr(soup.price_el, IF Truthy(price) THEN Str(PyStr(price)) ELSE Str(<<>>))
        ELSE price_str

\* lines 130-133: the location
resolve_location(meta, soup) ==
    LET location == PyOr(Get(meta, "location"), Str(<<>>))
    IN  IF ~Truthy(location) THEN PyOr(soup.breadcrumb, Str(<<>>)) ELSE location

\* lines 140-142: the first of the longest paragraphs (a stable sort by length,
\* longest first), "" without paragraphs
longest_paragraph(paragraphs) ==
    IF paragraphs = <<>> THEN <<>>
    ELSE LET best == CHOOSE i \in DOMAIN paragraphs :
                         /\ \A j \in DOMAIN paragraphs : Len(paragraphs[j]) <= Len(paragraphs[i])
                         /\ \A j \in 1..(i - 1) : Len(paragraphs[j]) < Len(paragraphs[i])
         IN  paragraphs[best]

\* lines 138-142: the description
resolve_description(meta, soup) ==
    LET description == Get(meta, "description")
    IN  IF ~Truthy(description) THEN Str(longest_paragraph(soup.paragraphs)) ELSE description

\* lines 144-153: the loop over the img elements, from position i
RECURSIVE collect_images(_, _, _, _)
collect_images(imgs, i, images, cap) ==
    IF i > Len(imgs) THEN images
    ELSE LET img  == imgs[i]
             src0 == PyOr(PyOr(Get(img, "src"), Get(img, "data-src")), Get(img, "data-lazy"))
         IN  IF ~Truthy(src0) THEN collect_images(imgs, i + 1, images, cap)
             ELSE LET src == IF StartsWith(src0.str, <<"/", "/">>)
                             THEN <<"h", "t", "t", "p", "s", ":">> \o src0.str
                             ELSE src0.str
                      images1 == IF StartsWith(src, <<"h", "t", "t", "p">>)
                                 THEN Append(images, src)
                                 ELSE images
                  IN  IF Len(images1) >= cap THEN images1
                      ELSE collect_images(imgs, i + 1, images1, cap)

Raised == [raised |-> "AttributeError"]

\* (v or "").strip(): a str method, so a truthy v that is no str raises
or_empty_strip(v) ==
    IF ~Truthy(v) THEN Str(<<>>)
    ELSE IF IsStr(v) THEN Str(Strip(v.str))
    ELSE Raised

\* (str(v) if v else "").strip()
str_or_empty_strip(v) == IF Truthy(v) THEN Str(Strip(PyStr(v))) ELSE Str(<<>>)

\* build_rec with the image keys numbered from 0 (enumerate without start=1)
build_rec_from_zero(u, title, price_str, location, area, typology, bedrooms, bathrooms, description, images) ==
    LET scalars == [k \in ScalarKeys |->
                      CASE k = "url" -> Str(u)
                        [] k = "title" -> or_empty_strip(title)
                        [] k = "price" -> or_empty_strip(price_str)
                        [] k = "location" -> or_empty_strip(location)
                        [] k = "area" -> or_empty_strip(area)
                        [] k = "typology" -> or_empty_strip(typology)
                        [] k = "bedrooms" -> str_or_empty_strip(bedrooms)
                        [] k = "bathrooms" -> str_or_empty_strip(bathrooms)
                        [] k = "description" -> or_empty_strip(description)]
        slots == [k \in {ImageKey(i - 1) : i \in 1..Len(images)} |->
                      images[CHOOSE i \in 1..Len(images) : ImageKey(i - 1) = k]]
    IN  IF \E k \in ScalarKeys : scalars[k] = Raised THEN Raised
        ELSE [k \in ScalarKeys |-> scalars[k].str] @@ slots

\* lines 154-166: the record, a function from key to str; Raised when building
\* it raises
build_rec(u, title, price_str, location, area, typology, bedrooms, bathrooms, description, images) ==
    LET scalars == [k \in ScalarKeys |->
                      CASE k = "url" -> Str(u)
                        [] k = "title" -> or_empty_strip(title)
                        [] k = "price" -> or_empty_strip(price_str)
                        [] k = "location" -> or_empty_strip(location)
                        [] k = "area" -> or_empty_strip(area)
                        [] k = "typology" -> or_empty_strip(typology)
                        [] k = "bedrooms" -> str_or_empty_strip(bedrooms)
                        [] k = "bathrooms" -> str_or_empty_strip(bathrooms)
                        [] k = "description" -> or_empty_strip(description)]
        slots == [k \in {ImageKey(i) : i \in 1..Len(images)} |->
                      images[CHOOSE i \in 1..Len(images) : ImageKey(i) = k]]
    IN  IF \E k \in ScalarKeys : scalars[k] = Raised THEN Raised
        ELSE [k \in ScalarKeys |-> scalars[k].str] @@ slots

\* lines 124-167: parse_listing once parse_json_ld has returned meta
listing_of(meta, soup, u, cap) ==
    build_rec(u,
              PyOr(Get(meta, "title"), soup.h1),
              resolve_price(meta, soup),
              resolve_location(meta, soup),
              find_label_value(soup, AreaLabels),
              find_label_value(soup, TipologiaLabels),
              PyOr(Get(meta, "bedrooms"), find_label_value(soup, QuartosLabels)),
              find_label_value(soup, BanhoLabels),
              resolve_description(meta, soup),
              collect_images(soup.imgs, 1, <<>>, cap))

parse_listing(soup, u, cap) == listing_of(parse_json_ld(soup), soup, u, cap)

----------------------------------------------------------------------------
(* The documents and inputs the specifications draw from *)

MaxTags == 2      \* most script tags in a document

MaxNodes == 3     \* most dt/dd/li/div/span elements in a document

MaxImgs == 3      \* most img elements in a document

MaxCap == 3       \* largest max_images

MaxUrls == 3      \* most rows of the input CSV

\* an output file: not written, or written with the rows rs
NoFile == [written |-> FALSE, rows |-> <<>>]

Written(rs) == [written |-> TRUE, rows |-> rs]

NoResult == [noresult |-> TRUE]

SeqsUpTo(S, n) == UNION {[1..k -> S] : k \in 0..n}

\* structured-data objects
ObjEmpty == Dict(EmptyMap)

ObjNameA == Dict("name" :> Str(<<"A">>))

ObjNameB == Dict(("name" :> Str(<<"B", " ">>)) @@ ("description" :> Str(<<"D">>)))

ObjName5 == Dict("name" :> Num(5))

ObjDescrE == Dict("description" :> Str(<<"E">>))

ObjOffer100 ==
    Dict("offers" :> Dict(("price" :> Num(100)) @@ ("lowPrice" :> Num(80))
                          @@ ("priceCurrency" :> Str(<<"E", "U", "R">>))))

ObjOffer200 ==
    Dict(("name" :> Str(<<"B", " ">>))
         @@ ("offers" :> Dict(("price" :> Num(200)) @@ ("priceCurrency" :> Str(<<"U", "S", "D", " ">>)))))

ObjOffer300 == Dict("offers" :> Dict("price" :> Num(300)))

ObjOfferZero ==
    Dict("offers" :> Dict(("price" :> Num(0)) @@ ("lowPrice" :> Num(80))
                          @@ ("priceCurrency" :> Str(<<"E", "U", "R">>))))

ObjOfferLow == Dict("offers" :> Dict("lowPrice" :> Num(50)))

ObjOfferList == Dict("offers" :> List(<<Dict("price" :> Num(1))>>))

ObjAddress ==
    Dict(("address" :> Dict(("addressLocality" :> Str(<<"L", "x">>)) @@ ("addressCountry" :> Str(<<"P", "T">>))))
         @@ ("numberOfRooms" :> Num(3)))

ObjRegion ==
    Dict(("address" :> Dict("addressRegion" :> Str(<<"A", "l", "g">>))) @@ ("numberOfBedrooms" :> Num(2)))

ObjGraph ==
    Dict(("@graph" :> List(<<ObjNameB, ObjOffer100>>))
         @@ ("name" :> Str(<<"A">>))
         @@ ("offers" :> Dict(("price" :> Num(200)) @@ ("priceCurrency" :> Str(<<"U", "S", "D", " ">>)))))

SampleObjects ==
    {ObjEmpty, ObjNameA, ObjNameB, ObjName5, ObjDescrE, ObjOffer100, ObjOffer200,
     ObjOffer300, ObjOfferZero, ObjOfferLow, ObjOfferList, ObjAddress, ObjRegion, ObjGraph}

\* script tags: every sample object alone, a list of two, a value that is no
\* object, text that does not decode, and a tag without text
SampleTags ==
    {Tag(Json(o)) : o \in SampleObjects}
    \cup {Tag(Json(List(<<ObjNameA, ObjOffer200>>))), Tag(Json(Num(7))), Tag(Malformed), Tag(Null)}

\* img elements, as their attributes
ImgHttp == "src" :> Str(<<"h", "t", "t", "p", ":", "/", "/", "a">>)

ImgProtoRel == "data-src" :> Str(<<"/", "/", "c", "/", "x">>)

ImgLazy == ("src" :> Str(<<>>)) @@ ("data-lazy" :> Str(<<"h", "t", "t", "p", "s", ":", "/", "/", "b">>))

ImgRelative == "src" :> Str(<<"i", "m", "g", "/", "x">>)

ImgNoSrc == "alt" :> Str(<<"x">>)

SampleImgs == {ImgHttp, ImgProtoRel, ImgLazy, ImgRelative, ImgNoSrc}

\* dt/dd/li/div/span elements
Node(tag, text, string, strong) == [tag |-> tag, text |-> text, string |-> string, strong |-> strong]

SampleNodes ==
    {Node("dt", <<"Á", "r", "e", "a", " ", "ú", "t", "i", "l">>, TRUE, Null),
     Node("dt", <<"Á", "R", "E", "A", " ", "B", "R", "U", "T", "A", " ", ":">>, TRUE, Null),
     Node("dt", <<"Á", "r", "e", "a">>, FALSE, Null),
     Node("dd", <<"8", "0", " ", "m", "²">>, FALSE, Null),
     Node("dd", <<>>, FALSE, Null),
     Node("li", <<"Á", "r", "e", "a", ":", " ", "9", "0">>, FALSE, Str(<<"Á", "r", "e", "a">>)),
     Node("li", <<"T", "i", "p", "o", "l", "o", "g", "i", "a", ":">>, FALSE, Str(<<"T", "i", "p", "o", "l", "o", "g", "i", "a">>)),
     Node("div", <<"á", "r", "e", "a">>, FALSE, Null),
     Node("div", <<"Á", "r", "e", "a", " ", "x">>, FALSE, Null),
     Node("span", <<"W", "C", "s", ":">>, FALSE, Null)}

Soup(scripts, h1, price_el, breadcrumb, nodes, paragraphs, imgs) ==
    [scripts |-> scripts, h1 |-> h1, price_el |-> price_el, breadcrumb |-> breadcrumb,
     nodes |-> nodes, paragraphs |-> paragraphs, imgs |-> imgs]

SampleParagraphs == <<<<"t", "e", "n", " ", "c", "h", "a", "r", "s", ".">>, <<"t", "h", "e", " ", "l", "o", "n", "g", "e", "s", "t", " ", "p", "a", "r", "a", "g", "r", "a", "p", "h">>, <<"a", " ", "s", "e", "c", "o", "n", "d", " ", "l", "o", "n", "g", " ", "p", "a", "r", "a", "g", "r", ".">>>>

PageUrl == <<"h", "t", "t", "p", ":", "/", "/", "p">>

\* documents that differ in their structured data and in the elements the
\* title and the price fall back to
JsonDocs ==
    {Soup(scripts, h1, price_el, Null, <<>>, SampleParagraphs, <<ImgHttp>>) :
        scripts \in SeqsUpTo(SampleTags, MaxTags),
        h1 \in {Null, Str(<<"H">>)},
        price_el \in {Null, Str(<<>>), Str(<<"9", " ", "€">>)}}

\* documents that differ in their dt/dd/li/div/span elements
FindDocs ==
    {Soup(scripts, Null, Null, Null, nodes, <<>>, <<>>) :
        scripts \in {<<>>, <<Tag(Json(ObjAddress))>>},
        nodes \in SeqsUpTo(SampleNodes, MaxNodes)}

\* documents that differ in their img elements
ImageDocs ==
    {Soup(scripts, Null, Null, Str(<<"L", "x">>), <<>>, <<>>, imgs) :
        scripts \in {<<>>, <<Tag(Json(ObjNameA))>>},
        imgs \in SeqsUpTo(SampleImgs, MaxImgs)}

----------------------------------------------------------------------------
(* parse_listing as a state machine: parse_json_ld merges one script tag per *)
(* step, then the record is assembled and returned                          *)

RunIdle ==
    /\ urls = <<>>
    /\ ui = 1
    /\ rows = <<>>
    /\ log = <<>>
    /\ csv_out = NoFile
    /\ pptx_out = NoFile

ParseStart ==
    /\ url = PageUrl
    /\ pc = "parse_json_ld"
    /\ ti = 1
    /\ data = EmptyMap
    /\ result = NoResult
    /\ RunIdle

Init ==
    /\ doc \in JsonDocs
    /\ max_images = 1
    /\ ParseStart

InitFind ==
    /\ doc \in FindDocs
    /\ max_images = 1
    /\ ParseStart

InitImages ==
    /\ doc \in ImageDocs
    /\ max_images \in 0..MaxCap
    /\ ParseStart

\* lines 78-87: one iteration of the loop over the script tags
MergeTag ==
    /\ pc = "parse_json_ld"
    /\ ti <= Len(doc.scripts)
    /\ data' = merge_tag(data, doc.scripts[ti])
    /\ ti' = ti + 1
    /\ UNCHANGED <<doc, url, max_images, pc, result, urls, ui, rows, log, csv_out, pptx_out>>

\* line 88 and lines 124-167: parse_json_ld returns, the record is built
ParseListingReturn ==
    /\ pc = "parse_json_ld"
    /\ ti > Len(doc.scripts)
    /\ result' = listing_of(data, doc, url, max_images)
    /\ pc' = "returned"
    /\ UNCHANGED <<doc, url, max_images, ti, data, urls, ui, rows, log, csv_out, pptx_out>>

Next == MergeTag \/ ParseListingReturn

Spec == Init /\ [][Next]_vars

SpecFind == InitFind /\ [][Next]_vars

SpecImages == InitImages /\ [][Next]_vars

----------------------------------------------------------------------------
(* run *)

\* the cells of the url column
SampleCells == {Str(<<"h", "t", "t", "p", ":", "/", "/", "a">>), Str(<<" ", "h", "t", "t", "p", "s", ":", "/", "/", "b", " ">>), Str(<<"f", "t", "p", ":", "/", "/", "x">>), Str(<<" ">>)}

\* the documents fetch_html may return for a url
DocNoImages == Soup(<<>>, Str(<<"H">>), Null, Null, <<>>, <<>>, <<ImgNoSrc, ImgRelative>>)

DocTwoImages == Soup(<<Tag(Json(ObjNameA))>>, Null, Null, Null, <<>>, <<>>, <<ImgHttp, ImgLazy>>)

DocThreeImages == Soup(<<>>, Null, Null, Null, <<>>, <<>>, <<ImgProtoRel, ImgHttp, ImgHttp>>)

DocBadName == Soup(<<Tag(Json(ObjName5))>>, Null, Null, Null, <<>>, <<>>, <<ImgHttp>>)

FetchedDocs == {DocNoImages, DocTwoImages, DocThreeImages, DocBadName}

FetchFailed == [fetch_failed |-> TRUE]

FetchOutcomes == {FetchFailed} \cup FetchedDocs

\* line 251: str(row["url"]).strip()
row_url(cell) == Strip(PyStr(cell))

\* line 252: the row is skipped
skipped(u) == u = <<>> \/ ~StartsWith(u, <<"h", "t", "t", "p">>)

\* line 267, for one record: how many of its keys start with "image".  The keys
\* of a record are the scalar keys and f"image{i}" keys, so a key starts with
\* "image" exactly when it is ImageKey(i) for an i up to the number of keys.
count_image_keys(r) ==
    Cardinality({k \in DOMAIN r : \E i \in 1..Cardinality(DOMAIN r) : k = ImageKey(i)})

\* line 267
max_imgs_of(rs) ==
    LET counts == {count_image_keys(rs[j]) : j \in DOMAIN rs}
    IN  CHOOSE m \in counts : \A c \in counts : c <= m

\* lines 269-270, for one record: r.setdefault(f"image{i}", "") for i in 1..n
RECURSIVE pad_rec(_, _, _)
pad_rec(r, i, n) ==
    IF i > n THEN r ELSE pad_rec(SetDefault(r, ImageKey(i), <<>>), i + 1, n)

\* pad_rows padding to the count of the first record instead of the largest
pad_rows_to_first(rs) == [j \in DOMAIN rs |-> pad_rec(rs[j], 1, count_image_keys(rs[1]))]

\* lines 267-270
pad_rows(rs) == [j \in DOMAIN rs |-> pad_rec(rs[j], 1, max_imgs_of(rs))]

InitRun ==
    /\ urls \in SeqsUpTo(SampleCells, MaxUrls)
    /\ max_images \in {0, MaxCap}
    /\ ui = 1
    /\ rows = <<>>
    /\ log = <<>>
    /\ csv_out = NoFile
    /\ pptx_out = NoFile
    /\ pc = "loop"
    /\ doc = Null
    /\ url = <<>>
    /\ ti = 1
    /\ data = EmptyMap
    /\ result = NoResult

\* RunRow without the try/except: a failure ends the loop
RunRowStopsOnError ==
    /\ pc = "loop"
    /\ ui <= Len(urls)
    /\ LET u == row_url(urls[ui])
       IN  IF skipped(u)
           THEN /\ ui' = ui + 1
                /\ UNCHANGED <<rows, log>>
           ELSE \E outcome \in FetchOutcomes :
                    LET rec == parse_listing(outcome, u, max_images)
                    IN  IF outcome = FetchFailed \/ rec = Raised
                        THEN /\ log' = Append(log, [tag |-> "ERRO", url |-> u])
                             /\ ui' = Len(urls) + 1
                             /\ UNCHANGED rows
                        ELSE /\ rows' = Append(rows, rec)
                             /\ log' = Append(log, [tag |-> "OK", url |-> u])
                             /\ ui' = ui + 1
    /\ UNCHANGED <<doc, url, max_images, pc, ti, data, result, urls, csv_out, pptx_out>>

\* lines 250-261: one iteration of the loop over the rows; fetch_html raises or
\* returns a document
RunRow ==
    /\ pc = "loop"
    /\ ui <= Len(urls)
    /\ LET u == row_url(urls[ui])
       IN  IF skipped(u)
           THEN UNCHANGED <<rows, log>>
           ELSE \E outcome \in FetchOutcomes :
                    LET rec == parse_listing(outcome, u, max_images)
                    IN  IF outcome = FetchFailed \/ rec = Raised
                        THEN /\ log' = Append(log, [tag |-> "ERRO", url |-> u])
                             /\ UNCHANGED rows
                        ELSE /\ rows' = Append(rows, rec)
                             /\ log' = Append(log, [tag |-> "OK", url |-> u])
    /\ ui' = ui + 1
    /\ UNCHANGED <<doc, url, max_images, pc, ti, data, result, urls, csv_out, pptx_out>>

\* RunNoRows without the early return: the empty batch is written out
RunNoRowsWrites ==
    /\ pc = "loop"
    /\ ui > Len(urls)
    /\ rows = <<>>
    /\ pc' = "csv_written"
    /\ csv_out' = Written(rows)
    /\ UNCHANGED <<doc, url, max_images, ti, data, result, urls, ui, rows, log, pptx_out>>

\* lines 263-265: no record, run returns
RunNoRows ==
    /\ pc = "loop"
    /\ ui > Len(urls)
    /\ rows = <<>>
    /\ pc' = "returned"
    /\ UNCHANGED <<doc, url, max_images, ti, data, result, urls, ui, rows, log, csv_out, pptx_out>>

\* lines 267-270: the padding
RunPad ==
    /\ pc = "loop"
    /\ ui > Len(urls)
    /\ rows # <<>>
    /\ rows' = pad_rows(rows)
    /\ pc' = "padded"
    /\ UNCHANGED <<doc, url, max_images, ti, data, result, urls, ui, log, csv_out, pptx_out>>

\* lines 272-273: the CSV
RunWriteCsv ==
    /\ pc = "padded"
    /\ csv_out' = Written(rows)
    /\ pc' = "csv_written"
    /\ UNCHANGED <<doc, url, max_images, ti, data, result, urls, ui, rows, log, pptx_out>>

\* lines 275-278: the PPTX
RunBuildPptx ==
    /\ pc = "csv_written"
    /\ pptx_out' = Written(rows)
    /\ pc' = "done"
    /\ UNCHANGED <<doc, url, max_images, ti, data, result, urls, ui, rows, log, csv_out>>

NextRun == RunRow \/ RunNoRows \/ RunPad \/ RunWriteCsv \/ RunBuildPptx

SpecRun == InitRun /\ [][NextRun]_vars

----------------------------------------------------------------------------
(* The merge of the structured data: C2, C3, C6, C10 *)

MetaKeys == {"title", "description", "price", "price_str", "location", "bedrooms"}

\* the key k of the metadata m holds a populated value
Populated(m, k) == k \in DOMAIN m /\ m[k] # Null

\* C2: while parse_json_ld merges the script tags, a key of the metadata that
\* holds a populated value keeps that value: every key is set at most once.
C2_SetAtMostOnce ==
    [][\A k \in MetaKeys : Populated(data, k) => Get(data', k) = data[k]]_vars

\* The objects _merge_realestate is to merge, in processing order: the tags in
\* document order, the elements of a list in order, the sub-objects of an
\* object's @graph before the object itself.
RECURSIVE ObjectsOf(_)
RECURSIVE ObjectsOfEach(_)

ObjectsOfEach(xs) ==
    IF xs = <<>> THEN <<>> ELSE ObjectsOf(Head(xs)) \o ObjectsOfEach(Tail(xs))

ObjectsOf(v) ==
    IF ~IsDict(v) THEN <<>>
    ELSE (IF "@graph" \in DOMAIN v.dict /\ IsList(v.dict["@graph"])
          THEN ObjectsOfEach(v.dict["@graph"].list)
          ELSE <<>>) \o <<v.dict>>

RECURSIVE ProcessingOrder(_)
ProcessingOrder(tags) ==
    IF tags = <<>> THEN <<>>
    ELSE LET text == Head(tags).string
             here == IF text = Null THEN <<EmptyMap>>
                     ELSE IF text = Malformed THEN <<>>
                     ELSE IF IsList(text.json) THEN ObjectsOfEach(text.json.list)
                     ELSE ObjectsOf(text.json)
         IN  here \o ProcessingOrder(Tail(tags))

\* what the object o supplies for a field of the metadata, Null when it
\* supplies nothing
Supplied(o, field) ==
    LET offers  == Get(o, "offers")
        address == Get(o, "address")
        rooms   == PyOr(Get(o, "numberOfRooms"), Get(o, "numberOfBedrooms"))
    IN  CASE field = "title" -> Get(o, "name")
          [] field = "description" -> Get(o, "description")
          [] field = "price" ->
                IF IsDict(offers) THEN PyOr(Get(offers.dict, "price"), Get(offers.dict, "lowPrice"))
                ELSE Null
          [] field = "location" ->
                IF IsDict(address) /\ compose_loc(address.dict) # <<>>
                THEN Str(compose_loc(address.dict))
                ELSE Null
          [] field = "bedrooms" -> IF Truthy(rooms) THEN Str(PyStr(rooms)) ELSE Null

\* the value of the first object of objs that supplies the field
FirstSupplied(objs, field) ==
    LET hits == {i \in DOMAIN objs : Supplied(objs[i], field) # Null}
    IN  IF hits = {} THEN Null
        ELSE Supplied(objs[CHOOSE i \in hits : \A j \in hits : i <= j], field)

\* C3: each of title, description, price, location and bedrooms of the
\* metadata parse_json_ld returns is the value of the first object, in
\* processing order, that supplies the field.
C3_FirstSupplierWins ==
    pc = "returned" =>
        \A field \in {"title", "description", "price", "location", "bedrooms"} :
            Get(data, field) = FirstSupplied(ProcessingOrder(doc.scripts), field)

\* C6: parse_listing returns a record and never raises, whatever the
\* structured-data blocks hold.
C6_NeverRaises == pc = "returned" => result # Raised

\* the document holds one structured-data object, without @graph
SingleObject(soup) ==
    /\ Len(soup.scripts) = 1
    /\ soup.scripts[1].string \notin {Null, Malformed}
    /\ IsDict(soup.scripts[1].string.json)
    /\ "@graph" \notin DOMAIN soup.scripts[1].string.json.dict

TheObject(soup) == soup.scripts[1].string.json.dict

\* the offers of the object o, an empty dict when it has none or they are no dict
OffersOf(o) == IF IsDict(Get(o, "offers")) THEN Get(o, "offers").dict ELSE EmptyMap

\* the price field from its three sources, the first that is neither absent
\* nor empty: the formatted price, the text of the element labelled "Preço",
\* the numeric price as a string
PriceChain(formatted, element, numeric) ==
    Strip(IF formatted # Null /\ formatted.str # <<>> THEN formatted.str
          ELSE IF element # Null /\ element.str # <<>> THEN element.str
          ELSE IF numeric # Null THEN PyStr(numeric)
          ELSE <<>>)

\* "<price> <currency>" when both are there
Formatted(price, currency) ==
    IF price # Null /\ currency # Null
    THEN Str(PyStr(price) \o <<" ">> \o PyStr(currency))
    ELSE Null

\* C10 as stated: the numeric price of an object is offers.price when the
\* object has one and offers.lowPrice only otherwise, and the price field is
\* resolved from the formatted price, the labelled element, the numeric price.
C10_PricePresent ==
    (pc = "returned" /\ result # Raised /\ SingleObject(doc)) =>
        LET offers  == OffersOf(TheObject(doc))
            numeric == IF Get(offers, "price") # Null THEN offers["price"]
                       ELSE Get(offers, "lowPrice")
        IN  result["price"]
                = PriceChain(Formatted(numeric, Get(offers, "priceCurrency")), doc.price_el, numeric)

\* a value that is absent, 0 or empty counts as absent
OrNull(v) == IF Truthy(v) THEN v ELSE Null

\* C10, amended: as C10_PricePresent, with a price (or currency) that is 0 or
\* empty treated like an absent one; and for every document the price field is
\* resolved from the metadata's price_str, the labelled element and the
\* metadata's price, in that order.
C10_PriceResolution ==
    (pc = "returned" /\ result # Raised) =>
        /\ result["price"]
              = PriceChain(OrNull(Get(data, "price_str")), doc.price_el, OrNull(Get(data, "price")))
        /\ SingleObject(doc) =>
              LET offers  == OffersOf(TheObject(doc))
                  numeric == IF Truthy(Get(offers, "price")) THEN offers["price"]
                             ELSE OrNull(Get(offers, "lowPrice"))
              IN  result["price"]
                      = PriceChain(Formatted(numeric, OrNull(Get(offers, "priceCurrency"))),
                                   doc.price_el, numeric)

\* a record from one object whose offers.price is 0 and whose lowPrice is not:
\* the price field is the formatted lowPrice
C10_Witness ==
    /\ pc = "returned"
    /\ result # Raised
    /\ SingleObject(doc)
    /\ Get(OffersOf(TheObject(doc)), "price") = Num(0)
    /\ Truthy(Get(OffersOf(TheObject(doc)), "lowPrice"))
    /\ result["price"]
          = StrOfNat(OffersOf(TheObject(doc))["lowPrice"].num) \o <<" ", "E", "U", "R">>

----------------------------------------------------------------------------
(* The record and its images: C1, C4 *)

\* the URL an img element yields: the first non-empty of src, data-src and
\* data-lazy, with https: put before a leading //; Null when the element has
\* none or the URL does not begin with http
AcceptedUrl(img) ==
    LET given == {a \in {"src", "data-src", "data-lazy"} : a \in DOMAIN img /\ img[a].str # <<>>}
        first == IF "src" \in given THEN img["src"].str
                 ELSE IF "data-src" \in given THEN img["data-src"].str
                 ELSE img["data-lazy"].str
        full  == IF Len(first) >= 2 /\ first[1] = "/" /\ first[2] = "/"
                 THEN <<"h", "t", "t", "p", "s", ":">> \o first
                 ELSE first
    IN  IF given = {} THEN Null
        ELSE IF Len(full) >= 4 /\ SubSeq(full, 1, 4) = <<"h", "t", "t", "p">> THEN Str(full)
        ELSE Null

\* the accepted URLs of the img elements, in document order
RECURSIVE AcceptedUrls(_)
AcceptedUrls(imgs) ==
    IF imgs = <<>> THEN <<>>
    ELSE (IF AcceptedUrl(Head(imgs)) = Null THEN <<>> ELSE <<AcceptedUrl(Head(imgs)).str>>)
         \o AcceptedUrls(Tail(imgs))

Min(a, b) == IF a <= b THEN a ELSE b

\* the keys of the record r that are not scalar keys
ImageKeysOf(r) == DOMAIN r \ ScalarKeys

IsPyString(v) == DOMAIN v = 1..Len(v) /\ \A i \in DOMAIN v : v[i] \in STRING

\* C1 as stated: the record has the scalar keys and image1..imageN with
\* N = max_images, every value is a string, and an image slot that no image
\* fills holds the empty string.
C1_SlotsUpToCap ==
    (pc = "returned" /\ result # Raised) =>
        /\ DOMAIN result = ScalarKeys \cup {ImageKey(i) : i \in 1..max_images}
        /\ \A k \in DOMAIN result : IsPyString(result[k])
        /\ \A i \in 1..max_images :
              i > Len(AcceptedUrls(doc.imgs)) => result[ImageKey(i)] = <<>>

\* C1, amended: the record has the scalar keys and image1..imageK, K the
\* number of images collected and at most the number of img elements that yield
\* an accepted URL; every value is a string; every image key holds the URL
\* collected at its place, none the empty string.
C1_SlotsAreCollected ==
    (pc = "returned" /\ result # Raised) =>
        \E K \in 0..Len(AcceptedUrls(doc.imgs)) :
            /\ DOMAIN result = ScalarKeys \cup {ImageKey(i) : i \in 1..K}
            /\ \A k \in DOMAIN result : IsPyString(result[k])
            /\ \A i \in 1..K : result[ImageKey(i)] = AcceptedUrls(doc.imgs)[i]
            /\ \A i \in 1..K : result[ImageKey(i)] # <<>>

\* a record with one image although max_images is 3: it has no image2, image3
C1_Witness ==
    /\ pc = "returned"
    /\ result # Raised
    /\ max_images = 3
    /\ Len(AcceptedUrls(doc.imgs)) = 1
    /\ ImageKeysOf(result) = {"image1"}

\* the images of the record r, in the order of their keys
ImagesOf(r) == [i \in 1..Cardinality(ImageKeysOf(r)) |-> r[ImageKey(i)]]

\* C4: the images collected are the first min(max_images, k) accepted URLs in
\* document order, k the number of img elements that yield an accepted URL;
\* never more than max_images, duplicates kept.
C4_FirstUpToCap ==
    (pc = "returned" /\ result # Raised) =>
        LET urls_ == AcceptedUrls(doc.imgs)
        IN  /\ Cardinality(ImageKeysOf(result)) <= max_images
            /\ ImagesOf(result) = SubSeq(urls_, 1, Min(max_images, Len(urls_)))

----------------------------------------------------------------------------
(* The label/value scan: C5 *)

\* the positions after i of the dd elements
DdAfter(nodes, i) == {j \in DOMAIN nodes : j > i /\ nodes[j].tag = "dd"}

Least(S) == CHOOSE i \in S : \A j \in S : i <= j

\* the positions of the successful matches of each tier
TierHits(nodes, labels, tier) ==
    CASE tier = 1 ->
            {i \in DOMAIN nodes :
                /\ nodes[i].tag = "dt"
                /\ nodes[i].string
                /\ label_match(labels, nodes[i].text)
                /\ DdAfter(nodes, i) # {}}
      [] tier = 2 ->
            {i \in DOMAIN nodes :
                /\ nodes[i].tag = "li"
                /\ nodes[i].strong # Null
                /\ label_match(labels, nodes[i].strong.str)
                /\ li_value(nodes[i]) # <<>>}
      [] tier = 3 ->
            {i \in DOMAIN nodes :
                /\ nodes[i].tag \in {"div", "span"}
                /\ label_match(labels, nodes[i].text)
                /\ (i + 1) \in DOMAIN nodes
                /\ nodes[i + 1].text # <<>>}

\* the value of the match at position i of a tier
TierValue(nodes, tier, i) ==
    CASE tier = 1 -> nodes[Least(DdAfter(nodes, i))].text
      [] tier = 2 -> li_value(nodes[i])
      [] tier = 3 -> nodes[i + 1].text

\* the value of the first match of the lowest tier that has one
FirstTierValue(nodes, labels) ==
    LET tiers == {t \in 1..3 : TierHits(nodes, labels, t) # {}}
    IN  IF tiers = {} THEN Null
        ELSE Str(TierValue(nodes, Least(tiers), Least(TierHits(nodes, labels, Least(tiers)))))

LabelLists == {TipologiaLabels, QuartosLabels, BanhoLabels, AreaLabels}

\* the label list L in other orders: reversed, and rotated by every amount
Reorderings(L) ==
    {[i \in DOMAIN L |-> L[Len(L) + 1 - i]]}
    \cup {[i \in DOMAIN L |-> L[((i + r - 1) % Len(L)) + 1]] : r \in 0..(Len(L) - 1)}

----------------------------------------------------------------------------
(* The batch: C7, C8, C9 *)

\* the url of an input cell passes the http-prefix check
PassesCheck(cell) ==
    LET u == row_url(cell)
    IN  Len(u) >= 4 /\ u[1] = "h" /\ u[2] = "t" /\ u[3] = "t" /\ u[4] = "p"

\* the urls of the first n input rows that pass the check, in input order
RECURSIVE UrlsToAttempt(_)
UrlsToAttempt(n) ==
    IF n = 0 THEN <<>>
    ELSE UrlsToAttempt(n - 1) \o (IF PassesCheck(urls[n]) THEN <<row_url(urls[n])>> ELSE <<>>)

\* the urls of the log lines with the tag t, in the order printed
RECURSIVE LoggedUrls(_, _)
LoggedUrls(lines, t) ==
    IF lines = <<>> THEN <<>>
    ELSE (IF Head(lines).tag \in t THEN <<Head(lines).url>> ELSE <<>>) \o LoggedUrls(Tail(lines), t)

\* C7: a failure on one url never stops the batch.  After any number of rows
\* the urls attempted (one log line each) are the urls of those rows that pass
\* the http-prefix check, once each and in input order, and the rows collected
\* are the records of the urls logged [OK], in that order.
C7_BatchContinues ==
    /\ ui \in 1..(Len(urls) + 1)
    /\ LoggedUrls(log, {"OK", "ERRO"}) = UrlsToAttempt(ui - 1)
    /\ [j \in DOMAIN rows |-> rows[j]["url"]] = LoggedUrls(log, {"OK"})

\* a finished batch in which a url failed and a later url gave a record
C7_Witness ==
    /\ pc = "done"
    /\ \E i \in DOMAIN log : \E j \in DOMAIN log :
          i < j /\ log[i].tag = "ERRO" /\ log[j].tag = "OK"
    /\ Len(log) = Len(urls)

\* the number of image keys of the record r
ImageCount(r) == Cardinality(ImageKeysOf(r))

\* the largest number of image keys of a record of rs
LargestImageCount(rs) ==
    CHOOSE m \in {ImageCount(rs[j]) : j \in DOMAIN rs} : \A j \in DOMAIN rs : ImageCount(rs[j]) <= m

\* C8: the padding leaves every record with the scalar keys and
\* image1..imageK, K the largest number of image keys of a record of the
\* batch; a slot the record had not filled holds the empty string, and no value
\* it had is changed.
C8_PaddedToBatchMax ==
    [][(pc = "loop" /\ pc' = "padded") =>
          /\ DOMAIN rows' = DOMAIN rows
          /\ \A j \in DOMAIN rows :
                /\ DOMAIN rows'[j]
                      = ScalarKeys \cup {ImageKey(i) : i \in 1..LargestImageCount(rows)}
                /\ \A k \in DOMAIN rows[j] : rows'[j][k] = rows[j][k]
                /\ \A k \in DOMAIN rows'[j] \ DOMAIN rows[j] : rows'[j][k] = <<>>]_vars

\* a padded batch of three records that had 2, 0 and 3 images: each has
\* image1..image3, the empty string where it had no image
C8_Witness ==
    /\ pc = "padded"
    /\ Len(rows) = 3
    /\ \A j \in DOMAIN rows : ImageKeysOf(rows[j]) = {"image1", "image2", "image3"}
    /\ rows[1]["image2"] # <<>> /\ rows[1]["image3"] = <<>>
    /\ rows[2]["image1"] = <<>> /\ rows[2]["image2"] = <<>> /\ rows[2]["image3"] = <<>>
    /\ rows[3]["image3"] # <<>>

\* C9: the CSV and the PPTX are written only once every input row has been
\* handled and only when a url gave a record; a batch without records returns
\* with neither file written.
C9_OutputOnlyWithRows ==
    /\ (csv_out # NoFile \/ pptx_out # NoFile) =>
          /\ ui > Len(urls)
          /\ LoggedUrls(log, {"OK", "ERRO"}) = UrlsToAttempt(Len(urls))
          /\ rows # <<>>
          /\ csv_out = Written(rows)
    /\ pptx_out # NoFile => pptx_out = Written(rows)
    /\ (ui > Len(urls) /\ rows = <<>>) => (csv_out = NoFile /\ pptx_out = NoFile)
    /\ pc = "returned" => (rows = <<>> /\ csv_out = NoFile /\ pptx_out = NoFile)
    /\ pc = "done" => (csv_out # NoFile /\ pptx_out # NoFile)

\* a batch whose every attempted url failed has returned, nothing written
C9_Witness ==
    /\ pc = "returned"
    /\ Len(log) >= 2
    /\ \A i \in DOMAIN log : log[i].tag = "ERRO"
    /\ csv_out = NoFile
    /\ pptx_out = NoFile

====
